---- MODULE Spec2Model ----
(***************************************************************************)
(* A model of package palapuzzle (src/palapuzzle.go): ScanPuzzle walks a   *)
(* gzip-compressed tar archive entry by entry, tallies the N.png entries,  *)
(* records the size of image.jpg, parses pala.desktop line by line, and    *)
(* returns a PuzzleInfo or an Error.                                       *)
(*                                                                         *)
(* Go strings are TLA+ strings (Len, Head, Tail, SubSeq and \o work on     *)
(* them).  Go's int is 64 bits wide; values the model computes with stay   *)
(* below 10^9, and the range checks of strconv.Atoi and of make() are      *)
(* decided on the decimal digits.                                          *)
(***************************************************************************)
EXTENDS Integers, Sequences, FiniteSets, TLC

\* The value nil of a pointer or of an error.
Nil == [nil |-> TRUE]

-----------------------------------------------------------------------------
(* Strings *)

Digits == {"0", "1", "2", "3", "4", "5", "6", "7", "8", "9"}

DigitVal(c) ==
    CASE c = "0" -> 0 [] c = "1" -> 1 [] c = "2" -> 2 [] c = "3" -> 3
      [] c = "4" -> 4 [] c = "5" -> 5 [] c = "6" -> 6 [] c = "7" -> 7
      [] c = "8" -> 8 [] c = "9" -> 9

DigitChar(d) ==
    CASE d = 0 -> "0" [] d = 1 -> "1" [] d = 2 -> "2" [] d = 3 -> "3"
      [] d = 4 -> "4" [] d = 5 -> "5" [] d = 6 -> "6" [] d = 7 -> "7"
      [] d = 8 -> "8" [] d = 9 -> "9"

\* The i-th character of s, as a string of length 1.
CharAt(s, i) == SubSeq(s, i, i)

\* \d+ : a non-empty run of ASCII digits.
AllDigits(s) == Len(s) > 0 /\ \A k \in 1..Len(s) : CharAt(s, k) \in Digits

\* The position of the first character of s that is in set cs, 0 if none.
RECURSIVE IndexAnyFrom(_, _, _)
IndexAnyFrom(s, cs, k) ==
    IF k > Len(s) THEN 0
    ELSE IF CharAt(s, k) \in cs THEN k
    ELSE IndexAnyFrom(s, cs, k + 1)

IndexAny(s, cs) == IndexAnyFrom(s, cs, 1)

\* The position of the last "/" of s, 0 if none.
RECURSIVE LastSlash(_, _)
LastSlash(s, k) ==
    IF k = 0 THEN 0
    ELSE IF CharAt(s, k) = "/" THEN k
    ELSE LastSlash(s, k - 1)

\* filepath.Split: the directory (with its final separator) and the file name.
Split(path) ==
    LET i == LastSlash(path, Len(path))
    IN  [dir |-> SubSeq(path, 1, i), file |-> SubSeq(path, i + 1, Len(path))]

\* The white space strings.TrimSpace removes (the ASCII part of it).
WhiteSpace == {" ", "\t", "\r", "\n"}

RECURSIVE TrimLeft(_)
TrimLeft(s) ==
    IF Len(s) > 0 /\ Head(s) \in WhiteSpace THEN TrimLeft(Tail(s)) ELSE s

RECURSIVE TrimRight(_)
TrimRight(s) ==
    IF Len(s) > 0 /\ CharAt(s, Len(s)) \in WhiteSpace
    THEN TrimRight(SubSeq(s, 1, Len(s) - 1))
    ELSE s

\* strings.TrimSpace
TrimSpace(s) == TrimRight(TrimLeft(s))

\* %d of a non-negative integer.
RECURSIVE Itoa(_)
Itoa(n) ==
    IF n < 0 THEN "-" \o Itoa(0 - n)
    ELSE IF n < 10 THEN DigitChar(n)
    ELSE Itoa(n \div 10) \o DigitChar(n % 10)

\* %q : the string in double quotes, with " and \ escaped by a backslash
\* (strconv.Quote on printable ASCII; a tab is written \t).
RECURSIVE QuoteBody(_)
QuoteBody(s) ==
    IF Len(s) = 0 THEN ""
    ELSE LET c == Head(s)
             e == CASE c = "\"" -> "\\\""
                    [] c = "\\" -> "\\\\"
                    [] c = "\t" -> "\\t"
                    [] OTHER    -> c
         IN  e \o QuoteBody(Tail(s))

Quote(s) == "\"" \o QuoteBody(s) \o "\""

-----------------------------------------------------------------------------
(* strconv.Atoi on a 64-bit int *)

\* The decimal digits of the largest int, 2^63 - 1, of 2^63 and of 2^62.
MaxIntDigits == "9223372036854775807"
MinIntDigits == "9223372036854775808"
HalfIntDigits == "4611686018427387904"

\* The digits of s without leading zeros ("" for zero).
RECURSIVE StripZeros(_)
StripZeros(s) ==
    IF Len(s) > 0 /\ Head(s) = "0" THEN StripZeros(Tail(s)) ELSE s

\* a <= b for two digit strings of the same length.
RECURSIVE SameLenLE(_, _)
SameLenLE(a, b) ==
    IF Len(a) = 0 THEN TRUE
    ELSE IF DigitVal(Head(a)) < DigitVal(Head(b)) THEN TRUE
    ELSE IF DigitVal(Head(a)) > DigitVal(Head(b)) THEN FALSE
    ELSE SameLenLE(Tail(a), Tail(b))

\* a <= b for two digit strings without leading zeros.
DigitsLE(a, b) ==
    \/ Len(a) < Len(b)
    \/ Len(a) = Len(b) /\ SameLenLE(a, b)

\* The value of a digit string of at most 9 digits.
RECURSIVE DigitsVal(_, _)
DigitsVal(s, acc) ==
    IF Len(s) = 0 THEN acc
    ELSE DigitsVal(Tail(s), acc * 10 + DigitVal(Head(s)))

\* The *strconv.NumError of Atoi.
NumError(s, why) == [kind |-> "NumError", Func |-> "Atoi", Num |-> s, Err |-> why]

\* strconv.Atoi(s): an optional sign and decimal digits, in the range of int.
\* err is nil or the NumError; n is the value; for a value of 10 digits or
\* more n is 0 and wide holds its digits (such a value is never negative in
\* the inputs of this model).
Atoi(s) ==
    LET neg    == Len(s) > 0 /\ Head(s) = "-"
        signed == Len(s) > 0 /\ Head(s) \in {"+", "-"}
        body   == IF signed THEN Tail(s) ELSE s
        mag    == StripZeros(body)
        limit  == IF neg THEN MinIntDigits ELSE MaxIntDigits
    IN  IF ~AllDigits(body)
        THEN [err |-> NumError(s, "invalid syntax"), n |-> 0, wide |-> ""]
        ELSE IF ~DigitsLE(mag, limit)
        THEN [err |-> NumError(s, "value out of range"), n |-> 0, wide |-> ""]
        ELSE IF Len(mag) > 9
        THEN [err |-> Nil, n |-> 0, wide |-> mag]
        ELSE [err |-> Nil,
              n |-> IF neg THEN 0 - DigitsVal(mag, 0) ELSE DigitsVal(mag, 0),
              wide |-> ""]

-----------------------------------------------------------------------------
(* The two patterns *)

\* rePieceName.FindStringSubmatch(name), ^(\d+)\.png$ : the captured digits,
\* or Nil when the name does not match.
rePieceName(name) ==
    LET n == Len(name)
    IN  IF n > 4 /\ SubSeq(name, n - 3, n) = ".png" /\ AllDigits(SubSeq(name, 1, n - 4))
        THEN [digits |-> SubSeq(name, 1, n - 4)]
        ELSE Nil

\* A variant of reKeyValue that lets a bracketed suffix follow the key, as
\* the pattern ^([^[=]+)[^=]*=(.*)$ would.
reKeyValueLoose(line) ==
    LET k == IndexAny(line, {"[", "="})
        e == IndexAny(line, {"="})
    IN  IF k > 1 /\ e > 0
        THEN [key |-> SubSeq(line, 1, k - 1), value |-> SubSeq(line, e + 1, Len(line))]
        ELSE Nil

\* reKeyValue.FindStringSubmatch(line), ^([^[=]+)=(.*)$ : the key is the
\* non-empty text before the first "=" and holds no "[".
reKeyValue(line) ==
    LET k == IndexAny(line, {"[", "="})
    IN  IF k > 1 /\ CharAt(line, k) = "="
        THEN [key |-> SubSeq(line, 1, k - 1), value |-> SubSeq(line, k + 1, Len(line))]
        ELSE Nil

-----------------------------------------------------------------------------
(* PuzzleInfo, Error and the descriptor parser *)

\* var ret = &PuzzleInfo{} : every field at its zero value.
NewPuzzleInfo ==
    [Dir |-> "", Filename |-> "", Title |-> "", Author |-> "", Comment |-> "",
     Warnings |-> <<>>, NPieceFiles |-> 0, NPiecesDecl |-> 0,
     ImageFileSize |-> 0, PuzzleFileSize |-> 0]

\* &Error{Action, FilePath, BaseError}.  The literals of ScanPuzzle start
\* with "cannot ", which Error() adds once more; Action holds the literal.
Error(action, path, base) == [Action |-> action, FilePath |-> path, BaseError |-> base]

\* An error of another package with no structure of interest, such as io.ErrUnexpectedEOF.
PlainError(msg) == [kind |-> "plain", msg |-> msg]

\* The *os.PathError of os.Open and of (*File).Stat.
PathError(op, path, msg) ==
    [kind |-> "PathError", Op |-> op, Path |-> path, Err |-> PlainError(msg)]

\* An *os.PathError around any cause, nil included.
WrapPathError(op, path, cause) ==
    [kind |-> "PathError", Op |-> op, Path |-> path, Err |-> cause]

\* Whether calling Error() on an error of another package dereferences nil:
\* the error is nil itself, or a PathError (whose Error() calls Err.Error())
\* around such an error.
RECURSIVE DereferencesNil(_)
DereferencesNil(be) ==
    \/ be = Nil
    \/ be.kind = "PathError" /\ DereferencesNil(be.Err)

\* The Error() method of an error of another package: the message of a plain
\* error, strconv.NumError's "strconv.Atoi: parsing "12": value out of
\* range", os.PathError's "open /x: no such file or directory".
RECURSIVE ErrorText(_)
ErrorText(be) ==
    CASE be.kind = "plain" -> be.msg
      [] be.kind = "NumError" ->
           "strconv." \o be.Func \o ": parsing " \o Quote(be.Num) \o ": " \o be.Err
      [] be.kind = "PathError" -> be.Op \o " " \o be.Path \o ": " \o ErrorText(be.Err)

\* What a call of Error() gives: a string, or a run-time panic.
Rendering(text) == [panic |-> "", text |-> text]
NilDereference ==
    [panic |-> "invalid memory address or nil pointer dereference", text |-> ""]

\* if be2, ok := be.(*os.PathError); ok { be = be2.Err }
Unwrap(be) == IF be # Nil /\ be.kind = "PathError" THEN be.Err ELSE be

\* func (e *Error) Error() string, lines 157-166.
ErrorError(e) ==
    LET be == e.BaseError
        head == "cannot " \o e.Action \o " \"" \o e.FilePath \o "\""
    IN  IF be = Nil THEN Rendering(head)
        ELSE IF DereferencesNil(Unwrap(be)) THEN NilDereference
        ELSE Rendering(head \o ": " \o ErrorText(Unwrap(be)))

\* The same method in the earlier copy of the package, which has no test
\* for a nil BaseError: be.Error() is called on whatever BaseError holds.
EarlierErrorError(e) ==
    LET be == e.BaseError
        head == "cannot " \o e.Action \o " \"" \o e.FilePath \o "\""
    IN  IF DereferencesNil(Unwrap(be)) THEN NilDereference
        ELSE Rendering(head \o ": " \o ErrorText(Unwrap(be)))

\* bufio.Scanner's Text() for one line of the stream: ScanLines has dropped
\* the line end and one trailing carriage return.
ScannerText(raw) ==
    IF Len(raw) > 0 /\ CharAt(raw, Len(raw)) = "\r"
    THEN SubSeq(raw, 1, Len(raw) - 1)
    ELSE raw

\* A variant of scanPalaDesktopLine without line 136, n = -1: the declared
\* count of a bad value is the 0 that Atoi returns with its error.
scanPalaDesktopLineNoSentinel(out, text) ==
    LET m == reKeyValue(text)
    IN  IF m = Nil THEN out
        ELSE LET key   == m.key
                 value == TrimSpace(m.value)
             IN  CASE key = "Name" -> [out EXCEPT !.Title = value]
                   [] key = "X-KDE-PluginInfo-Author" -> [out EXCEPT !.Author = value]
                   [] key = "Comment" -> [out EXCEPT !.Comment = value]
                   [] key \in {"PieceCount", "020_PieceCount"} ->
                        LET a == Atoi(value)
                        IN  IF a.err # Nil
                            THEN [out EXCEPT
                                    !.Warnings = Append(@, "bad PieceCount " \o Quote(value)),
                                    !.NPiecesDecl = a.n]
                            ELSE [out EXCEPT !.NPiecesDecl = a.n]
                   [] OTHER -> out

\* A variant of scanPalaDesktopLine in which every assignment starts from
\* empty descriptor fields, so that nothing of an earlier descriptor stays.
scanPalaDesktopLineOverwrite(out, text) ==
    LET m == reKeyValue(text)
        fresh == [out EXCEPT !.Title = "", !.Author = "", !.Comment = "",
                             !.NPiecesDecl = 0]
    IN  IF m = Nil THEN out
        ELSE LET key   == m.key
                 value == TrimSpace(m.value)
             IN  CASE key = "Name" -> [fresh EXCEPT !.Title = value]
                   [] key = "X-KDE-PluginInfo-Author" -> [fresh EXCEPT !.Author = value]
                   [] key = "Comment" -> [fresh EXCEPT !.Comment = value]
                   [] key \in {"PieceCount", "020_PieceCount"} ->
                        LET a == Atoi(value)
                        IN  IF a.err # Nil
                            THEN [fresh EXCEPT
                                    !.Warnings = Append(@, "bad PieceCount " \o Quote(value)),
                                    !.NPiecesDecl = -1]
                            ELSE [fresh EXCEPT !.NPiecesDecl = a.n]
                   [] OTHER -> out

\* The body of the loop of scanPalaDesktopFile for one line: the record
\* after the line.
scanPalaDesktopLine(out, text) ==
    LET m == reKeyValue(text)
    IN  IF m = Nil THEN out
        ELSE LET key   == m.key
                 value == TrimSpace(m.value)
             IN  CASE key = "Name" -> [out EXCEPT !.Title = value]
                   [] key = "X-KDE-PluginInfo-Author" -> [out EXCEPT !.Author = value]
                   [] key = "Comment" -> [out EXCEPT !.Comment = value]
                   [] key \in {"PieceCount", "020_PieceCount"} ->
                        LET a == Atoi(value)
                        IN  IF a.err # Nil
                            THEN [out EXCEPT
                                    !.Warnings = Append(@, "bad PieceCount " \o Quote(value)),
                                    !.NPiecesDecl = -1]
                            ELSE [out EXCEPT !.NPiecesDecl = a.n]
                   [] OTHER -> out

\* scanPalaDesktopFile on a whole stream: the lines it delivers, then the
\* end of the entry (failure = Nil) or a read error.  The record is written
\* in place, so it is changed also when an error is returned.
RECURSIVE scanPalaDesktopFile(_, _, _)
scanPalaDesktopFile(lines, failure, out) ==
    IF lines = <<>>
    THEN [out |-> out,
          err |-> IF failure = Nil THEN Nil
                  ELSE Error("cannot read \"pala.desktop\" member in ", "?", failure)]
    ELSE scanPalaDesktopFile(Tail(lines), failure,
                             scanPalaDesktopLine(out, ScannerText(Head(lines))))

-----------------------------------------------------------------------------
(* The tally of piece numbers *)

\* The length of make([]byte, 512), and the number of values of a byte.
InitialLen == 512
ByteRange == 256

\* A []byte of zeros is its length and its non-zero cells.
MakeBytes(n) == [len |-> n, cell |-> [j \in {} |-> 0]]

At(slice, i) == IF i \in DOMAIN slice.cell THEN slice.cell[i] ELSE 0

\* slice[i] = v, for 0 <= i < len(slice).
SetAt(slice, i, v) ==
    [slice EXCEPT !.cell =
        [j \in (IF v = 0 THEN DOMAIN @ \ {i} ELSE DOMAIN @ \cup {i}) |->
            IF j = i THEN v ELSE @[j]]]

\* copy(dst, src): the first min(len(dst), len(src)) bytes of src over dst.
Copy(dst, src) ==
    LET n == IF dst.len < src.len THEN dst.len ELSE src.len
    IN  [dst EXCEPT !.cell =
            [j \in {k \in DOMAIN src.cell : k < n} \cup {k \in DOMAIN @ : k >= n} |->
                IF j < n THEN src.cell[j] ELSE @[j]]]

\* Lines 86-91: the tally, grown when i does not fit.
Grow(piecesFound, i) ==
    IF i >= piecesFound.len
    THEN Copy(MakeBytes(2 * i), piecesFound)
    ELSE piecesFound

\* A variant of RecordPiece that takes the number of the last piece entry
\* for the highest (line 93 without its comparison).
RecordPieceLast(piecesFound, maxPieceNum, i) ==
    LET grown == Grow(piecesFound, i)
    IN  [panic |-> "",
         piecesFound |-> SetAt(grown, i, (At(grown, i) + 1) % ByteRange),
         maxPieceNum |-> i]

\* Lines 86-95 for a piece number i: the tally and the highest number after
\* the entry.  piecesFound[i]++ is a byte increment; an index outside the
\* slice is a run-time panic.
RecordPiece(piecesFound, maxPieceNum, i) ==
    LET grown == Grow(piecesFound, i)
    IN  IF i < 0 \/ i >= grown.len
        THEN [panic |-> "index out of range", piecesFound |-> grown,
              maxPieceNum |-> maxPieceNum]
        ELSE [panic |-> "",
              piecesFound |-> SetAt(grown, i, (At(grown, i) + 1) % ByteRange),
              maxPieceNum |-> IF i > maxPieceNum THEN i ELSE maxPieceNum]

\* A variant of TallyWarnings whose loop runs from maxPieceNum - 1 - i down
\* to 0.
RECURSIVE TallyWarningsDown(_, _, _, _)
TallyWarningsDown(piecesFound, maxPieceNum, i, warnings) ==
    LET j == maxPieceNum - 1 - i
    IN  IF ~(i < maxPieceNum) THEN warnings
        ELSE TallyWarningsDown(piecesFound, maxPieceNum, i + 1,
                IF At(piecesFound, j) = 0
                THEN Append(warnings, "missing \"" \o Itoa(j) \o ".png\"")
                ELSE IF At(piecesFound, j) > 1
                THEN Append(warnings, Itoa(At(piecesFound, j)) \o " members named \""
                                      \o Itoa(j) \o ".png\"")
                ELSE warnings)

\* Lines 106-115: the warnings after the loop has run from i to maxPieceNum - 1.
RECURSIVE TallyWarnings(_, _, _, _)
TallyWarnings(piecesFound, maxPieceNum, i, warnings) ==
    IF ~(i < maxPieceNum) THEN warnings
    ELSE TallyWarnings(piecesFound, maxPieceNum, i + 1,
            IF At(piecesFound, i) = 0
            THEN Append(warnings, "missing \"" \o Itoa(i) \o ".png\"")
            ELSE IF At(piecesFound, i) > 1
            THEN Append(warnings, Itoa(At(piecesFound, i)) \o " members named \""
                                  \o Itoa(i) \o ".png\"")
            ELSE warnings)

-----------------------------------------------------------------------------
(* The handling of one archive entry *)

\* Lines 80, 96 and 98: which branch of the loop body an entry name takes.
Classify(name) ==
    IF rePieceName(name) # Nil THEN "piece"
    ELSE IF name = "image.jpg" THEN "image"
    ELSE IF name = "pala.desktop" THEN "desc"
    ELSE "other"

\* A variant of SetImageSize that keeps the size of the first image entry.
SetImageSizeFirst(out, size) ==
    IF out.ImageFileSize = 0 THEN [out EXCEPT !.ImageFileSize = size] ELSE out

\* Line 97: ret.ImageFileSize = header.Size
SetImageSize(out, size) == [out EXCEPT !.ImageFileSize = size]

\* make([]byte, 2*i) for an i of 10 digits or more: from 2^62 on 2*i wraps
\* to a negative length, and makeslice panics.
MakeLenWraps(wide) == DigitsLE(HalfIntDigits, wide)

\* An allocation of 2 GB or more that does not wrap: whether it succeeds
\* depends on the machine, and no input of this model asks for one.
Unmodelled == "allocation outside the model"

\* A variant of PieceEntry without the test of line 82: a number that
\* strconv.Atoi rejects is tallied as the 0 that Atoi returns with its error.
PieceEntryLenient(name, path, piecesFound, maxPieceNum) ==
    LET a == Atoi(rePieceName(name).digits)
        r == RecordPiece(piecesFound, maxPieceNum, a.n)
        same == [err |-> Nil, panic |-> "", piecesFound |-> piecesFound,
                 maxPieceNum |-> maxPieceNum]
    IN  IF a.wide # ""
        THEN [same EXCEPT !.panic = IF MakeLenWraps(a.wide)
                                    THEN "makeslice: len out of range"
                                    ELSE Unmodelled]
        ELSE [same EXCEPT !.panic = r.panic, !.piecesFound = r.piecesFound,
                          !.maxPieceNum = r.maxPieceNum]

\* Lines 80-95 for an entry whose name matches rePieceName: err is the
\* *Error returned, panic the run-time panic, and otherwise the tally and
\* the highest number are those after the entry.
PieceEntry(name, path, piecesFound, maxPieceNum) ==
    LET a == Atoi(rePieceName(name).digits)
        r == RecordPiece(piecesFound, maxPieceNum, a.n)
        same == [err |-> Nil, panic |-> "", piecesFound |-> piecesFound,
                 maxPieceNum |-> maxPieceNum]
    IN  IF a.err # Nil
        THEN [same EXCEPT !.err = Error("bad member name " \o Quote(name), path, a.err)]
        ELSE IF a.wide # ""
        THEN [same EXCEPT !.panic = IF MakeLenWraps(a.wide)
                                    THEN "makeslice: len out of range"
                                    ELSE Unmodelled]
        ELSE [same EXCEPT !.panic = r.panic, !.piecesFound = r.piecesFound,
                          !.maxPieceNum = r.maxPieceNum]

\* A variant of Reconcile that puts the warnings of the loop before the
\* warnings the record holds already.
ReconcileFirst(out, piecesFound, maxPieceNum) ==
    [out EXCEPT !.Warnings = TallyWarnings(piecesFound, maxPieceNum, 0, <<>>) \o @,
                !.NPieceFiles = maxPieceNum + 1]

\* Lines 106-116: the record after the loop.
Reconcile(out, piecesFound, maxPieceNum) ==
    [out EXCEPT !.Warnings = TallyWarnings(piecesFound, maxPieceNum, 0, @),
                !.NPieceFiles = maxPieceNum + 1]

\* What a call of ScanPuzzle leaves: the record and the error it returns, or
\* the run-time panic that ended it.
Outcome(info, err, panic) == [info |-> info, err |-> err, panic |-> panic]

\* Lines 72-118 as a function of the whole archive: entries is the sequence
\* of entries tr.Next() delivers before io.EOF, each [Name, Size, Lines,
\* Failure] (Lines and Failure: the content stream of a descriptor entry).
RECURSIVE ScanEntries(_, _, _, _, _)
ScanEntries(entries, path, out, piecesFound, maxPieceNum) ==
    IF entries = <<>>
    THEN Outcome(Reconcile(out, piecesFound, maxPieceNum), Nil, "")
    ELSE LET e == Head(entries)
             c == Classify(e.Name)
             p == PieceEntry(e.Name, path, piecesFound, maxPieceNum)
             d == scanPalaDesktopFile(e.Lines, e.Failure, out)
         IN  CASE c = "piece" ->
                    IF p.err # Nil THEN Outcome(Nil, p.err, "")
                    ELSE IF p.panic # "" THEN Outcome(Nil, Nil, p.panic)
                    ELSE ScanEntries(Tail(entries), path, out, p.piecesFound, p.maxPieceNum)
               [] c = "image" ->
                    ScanEntries(Tail(entries), path, SetImageSize(out, e.Size),
                                piecesFound, maxPieceNum)
               [] c = "desc" ->
                    IF d.err # Nil THEN Outcome(Nil, [d.err EXCEPT !.FilePath = path], "")
                    ELSE ScanEntries(Tail(entries), path, d.out, piecesFound, maxPieceNum)
               [] OTHER ->
                    ScanEntries(Tail(entries), path, out, piecesFound, maxPieceNum)

\* ScanPuzzle on a file that opens and decompresses, as a function of its
\* archive.
ScanArchive(entries, path, size) ==
    ScanEntries(entries, path,
                [NewPuzzleInfo EXCEPT !.Dir = Split(path).dir,
                                      !.Filename = Split(path).file,
                                      !.PuzzleFileSize = size],
                MakeBytes(InitialLen), -1)

-----------------------------------------------------------------------------
(* One call of ScanPuzzle, step by step *)

VARIABLES
    pc,           \* where the call is: "open", "stat", "gzip", "next" (the
                  \* head of the loop), "desc" (inside scanPalaDesktopFile),
                  \* "done" (returned), "panic"; "pure" and "compared" belong
                  \* to SpecPerm, "Error", "rendered" and "rendered earlier"
                  \* to SpecError
    fs,           \* the path passed to ScanPuzzle
    f,            \* the file handle: "none", "open", "closed"
    zr,           \* the gzip reader: "none", "open", "closed"
    defers,       \* the deferred calls, the last one first
    ret,          \* the PuzzleInfo being filled
    maxPieceNum,  \* the highest piece number so far, -1 before the first
    piecesFound,  \* the tally
    result,       \* the Outcome of the call, Nil while it runs
    hdr,          \* the header of the entry read last: [Name, Size]
    text,         \* the descriptor line scanned last
    nEntries,     \* how many entries have been read
    nLines,       \* how many lines of the current descriptor have been scanned
    seen,         \* history: how many entries of each name have been read
    lastImage,    \* history: the size of the last entry named image.jpg, -1 if none
    nDescs,       \* history: how many descriptor entries have been entered
    before,       \* history: the record when the last descriptor entry began
    alone,        \* history: what the last descriptor entry alone has produced
    assigned,     \* history: the fields the last descriptor entry has assigned
    nCountLines,  \* history: how many PieceCount lines have been scanned
    closed,       \* history: the handles closed, in the order of their closing
    archive,      \* SpecPerm: an archive, as a sequence of entries
    permuted,     \* SpecPerm: the same archive with its piece entries permuted
    errValue,     \* SpecError: an *Error, the receiver of Error()
    rendered      \* SpecError: what Error() gave for it, Nil before the call

vars == <<pc, fs, f, zr, defers, ret, maxPieceNum, piecesFound, result, hdr, text,
          nEntries, nLines, seen, lastImage, nDescs, before, alone, assigned,
          nCountLines, closed, archive, permuted, errValue, rendered>>

state == <<ret, maxPieceNum, piecesFound>>
descHistory == <<nDescs, before, alone, assigned>>
history == <<seen, lastImage, nDescs, before, alone, assigned, nCountLines>>
pure == <<archive, permuted, errValue, rendered>>

\* The bounds of the model: entries per archive and lines per descriptor.
MaxEntries == 3
MaxLines == 2

\* The paths, file sizes and declared entry sizes the model draws from.
Paths == {"puzzles/a.puzzle"}
FileSizes == {4096}
EntrySizes == {5, 7}

NoHeader == [Name |-> "", Size |-> 0]

Init ==
    /\ pc = "open"
    /\ fs \in Paths
    /\ f = "none"
    /\ zr = "none"
    /\ defers = <<>>
    /\ ret = NewPuzzleInfo
    /\ maxPieceNum = -1
    /\ piecesFound = MakeBytes(0)
    /\ result = Nil
    /\ hdr = NoHeader
    /\ text = ""
    /\ nEntries = 0
    /\ nLines = 0
    /\ seen = [n \in {} |-> 0]
    /\ lastImage = -1
    /\ nDescs = 0
    /\ before = NewPuzzleInfo
    /\ alone = NewPuzzleInfo
    /\ assigned = {}
    /\ nCountLines = 0
    /\ closed = <<>>
    /\ archive = <<>>
    /\ permuted = <<>>
    /\ errValue = Nil
    /\ rendered = Nil

\* Close() of a handle.
Close(h) == IF h = "open" THEN "closed" ELSE "badclose"

\* The deferred calls of lines 55 and 67 run, the last deferred first.
RunDefers ==
    /\ f' = IF \E k \in DOMAIN defers : defers[k] = "f" THEN Close(f) ELSE f
    /\ zr' = IF \E k \in DOMAIN defers : defers[k] = "zr" THEN Close(zr) ELSE zr
    /\ closed' = closed \o defers
    /\ defers' = <<>>

\* return info, err
Return(info, err) ==
    /\ pc' = "done"
    /\ result' = Outcome(info, err, "")
    /\ RunDefers

\* A run-time panic leaves ScanPuzzle without a return value; the deferred
\* calls run while the stack unwinds.
Panic(what) ==
    /\ pc' = "panic"
    /\ result' = Outcome(Nil, Nil, what)
    /\ RunDefers

\* The record field a descriptor line assigns, "" if none (for the history).
FieldOf(line) ==
    LET m == reKeyValue(line)
    IN  IF m = Nil THEN ""
        ELSE CASE m.key = "Name" -> "Title"
               [] m.key = "X-KDE-PluginInfo-Author" -> "Author"
               [] m.key = "Comment" -> "Comment"
               [] m.key \in {"PieceCount", "020_PieceCount"} -> "NPiecesDecl"
               [] OTHER -> ""

\* Lines 51-56: os.Open, defer f.Close(), filepath.Split.
OpenFile ==
    /\ pc = "open"
    /\ \/ /\ Return(Nil, Error("cannot open", fs,
                                PathError("open", fs, "no such file or directory")))
          /\ UNCHANGED ret
       \/ /\ f' = "open"
          /\ defers' = <<"f">> \o defers
          /\ ret' = [ret EXCEPT !.Dir = Split(fs).dir, !.Filename = Split(fs).file]
          /\ pc' = "stat"
          /\ UNCHANGED <<zr, result, closed>>
    /\ UNCHANGED <<fs, maxPieceNum, piecesFound, hdr, text, nEntries, nLines,
                   history, pure>>

\* Lines 57-61: f.Stat().
StatFile ==
    /\ pc = "stat"
    /\ \/ /\ Return(Nil, Error("cannot examine", fs,
                                PathError("stat", fs, "input/output error")))
          /\ UNCHANGED ret
       \/ /\ \E size \in FileSizes : ret' = [ret EXCEPT !.PuzzleFileSize = size]
          /\ pc' = "gzip"
          /\ UNCHANGED <<f, zr, defers, result, closed>>
    /\ UNCHANGED <<fs, maxPieceNum, piecesFound, hdr, text, nEntries, nLines,
                   history, pure>>

\* A variant of NewGzipReader without line 67, defer zr.Close().
NewGzipReaderNoDefer ==
    /\ pc = "gzip"
    /\ \/ /\ Return(Nil, Error("cannot decompress", fs, PlainError("gzip: invalid header")))
          /\ UNCHANGED <<maxPieceNum, piecesFound>>
       \/ /\ zr' = "open"
          /\ maxPieceNum' = -1
          /\ piecesFound' = MakeBytes(InitialLen)
          /\ pc' = "next"
          /\ UNCHANGED <<f, defers, result, closed>>
    /\ UNCHANGED <<fs, ret, hdr, text, nEntries, nLines, history, pure>>

\* Lines 63-71: gzip.NewReader, defer zr.Close(), tar.NewReader, the tally.
NewGzipReader ==
    /\ pc = "gzip"
    /\ \/ /\ Return(Nil, Error("cannot decompress", fs, PlainError("gzip: invalid header")))
          /\ UNCHANGED <<maxPieceNum, piecesFound>>
       \/ /\ zr' = "open"
          /\ defers' = <<"zr">> \o defers
          /\ maxPieceNum' = -1
          /\ piecesFound' = MakeBytes(InitialLen)
          /\ pc' = "next"
          /\ UNCHANGED <<f, result, closed>>
    /\ UNCHANGED <<fs, ret, hdr, text, nEntries, nLines, history, pure>>

\* Lines 73-79: tr.Next() fails with an error other than io.EOF.
TarError ==
    /\ pc = "next"
    /\ Return(Nil, Error("cannot read decompressed TAR file", fs,
                          PlainError("unexpected EOF")))
    /\ UNCHANGED <<fs, state, hdr, text, nEntries, nLines, history, pure>>

\* Lines 73-104: tr.Next() returns the header of an entry, which is
\* classified by its name and handled; limit bounds the entries read.
ReadEntry(name, size, limit) ==
    /\ pc = "next"
    /\ nEntries < limit
    /\ hdr' = [Name |-> name, Size |-> size]
    /\ nEntries' = nEntries + 1
    /\ seen' = [n \in DOMAIN seen \cup {name} |->
                  IF n = name THEN (IF n \in DOMAIN seen THEN seen[n] ELSE 0) + 1
                  ELSE seen[n]]
    /\ lastImage' = IF name = "image.jpg" THEN size ELSE lastImage
    /\ LET c == Classify(name)
           p == PieceEntry(name, fs, piecesFound, maxPieceNum)
       IN  CASE c = "piece" ->
                  /\ p.panic # Unmodelled
                  /\ IF p.err # Nil
                     THEN Return(Nil, p.err) /\ UNCHANGED <<maxPieceNum, piecesFound>>
                     ELSE IF p.panic # ""
                     THEN Panic(p.panic) /\ UNCHANGED <<maxPieceNum, piecesFound>>
                     ELSE /\ piecesFound' = p.piecesFound
                          /\ maxPieceNum' = p.maxPieceNum
                          /\ UNCHANGED <<pc, result, f, zr, defers, closed>>
                  /\ UNCHANGED <<ret, nLines, descHistory>>
             [] c = "image" ->
                  /\ ret' = SetImageSize(ret, size)
                  /\ UNCHANGED <<pc, result, f, zr, defers, closed, maxPieceNum,
                                 piecesFound, nLines, descHistory>>
             [] c = "desc" ->
                  /\ pc' = "desc"
                  /\ nLines' = 0
                  /\ nDescs' = nDescs + 1
                  /\ before' = ret
                  /\ alone' = NewPuzzleInfo
                  /\ assigned' = {}
                  /\ UNCHANGED <<result, f, zr, defers, closed, state>>
             [] OTHER ->
                  UNCHANGED <<pc, result, f, zr, defers, closed, state, nLines,
                              descHistory>>
    /\ UNCHANGED <<fs, text, nCountLines, pure>>

NextEntry(name, size) == ReadEntry(name, size, MaxEntries)

\* Lines 123-143: s.Scan() delivers a line, which is matched and stored.
DescScanLine(raw) ==
    /\ pc = "desc"
    /\ nLines < MaxLines
    /\ nLines' = nLines + 1
    /\ text' = ScannerText(raw)
    /\ ret' = scanPalaDesktopLine(ret, text')
    /\ alone' = scanPalaDesktopLine(alone, text')
    /\ assigned' = assigned \cup ({FieldOf(text')} \ {""})
    /\ nCountLines' = nCountLines + (IF FieldOf(text') = "NPiecesDecl" THEN 1 ELSE 0)
    /\ UNCHANGED <<pc, fs, f, zr, defers, maxPieceNum, piecesFound, result, hdr,
                   nEntries, seen, lastImage, nDescs, before, closed, pure>>

\* The errors s.Err() can hold when s.Scan() has returned false: an error
\* of the tar reader, or bufio.ErrTooLong.
StreamErrors ==
    {PlainError("unexpected EOF"), PlainError("bufio.Scanner: token too long")}

\* A variant of DescScanEnd without line 101, e.FilePath = fs.
DescScanEndNoFixup ==
    /\ pc = "desc"
    /\ \/ /\ pc' = "next"
          /\ UNCHANGED <<result, f, zr, defers, closed>>
       \/ \E cause \in StreamErrors :
             Return(Nil, scanPalaDesktopFile(<<>>, cause, ret).err)
    /\ UNCHANGED <<fs, state, hdr, text, nEntries, nLines, history, pure>>

\* Lines 144-148 and 99-103: s.Scan() returns false, at the end of the entry
\* or on a read error; ScanPuzzle fills in the path and returns the error.
DescScanEnd ==
    /\ pc = "desc"
    /\ \/ /\ pc' = "next"
          /\ UNCHANGED <<result, f, zr, defers, closed>>
       \/ \E cause \in StreamErrors :
             LET e == scanPalaDesktopFile(<<>>, cause, ret).err
             IN  Return(Nil, [e EXCEPT !.FilePath = fs])
    /\ UNCHANGED <<fs, state, hdr, text, nEntries, nLines, history, pure>>

\* Lines 74-76 and 106-118: tr.Next() returns io.EOF, the tally becomes
\* warnings, and the record is returned.
Finish ==
    /\ pc = "next"
    /\ ret' = Reconcile(ret, piecesFound, maxPieceNum)
    /\ Return(ret', Nil)
    /\ UNCHANGED <<fs, maxPieceNum, piecesFound, hdr, text, nEntries, nLines,
                   history, pure>>

\* The entry names and descriptor lines of the main specification.
EntryNames ==
    {"0.png", "1.png", "3.png", "image.jpg", "pala.desktop", "a1.png",
     "9223372036854775807.png", "99999999999999999999.png"}
Lines == {"Name=Foo", "PieceCount=abc", "[Desktop Entry]"}

Next ==
    \/ OpenFile
    \/ StatFile
    \/ NewGzipReader
    \/ TarError
    \/ \E name \in EntryNames, size \in EntrySizes : NextEntry(name, size)
    \/ \E raw \in Lines : DescScanLine(raw)
    \/ DescScanEnd
    \/ Finish

Spec == Init /\ [][Next]_vars

\* The specification of the descriptor parser: archives of descriptor
\* entries and one piece name, with descriptor lines of every kind.
DescNames == {"pala.desktop", "1.png"}
DescLines ==
    {"Name=Foo", "Name[de]=Bar", "name=foo", "[Desktop Entry]", "Comment= a=b ",
     "X-KDE-PluginInfo-Author=?\r", "PieceCount= x1 ", "020_PieceCount= 5 ",
     "=x", "Exec=palapeli"}

\* The bound of SpecDesc: entries per archive.
MaxDescs == 2

DescEntry(name) == ReadEntry(name, 0, MaxDescs)

NextDesc ==
    \/ OpenFile
    \/ StatFile
    \/ NewGzipReader
    \/ \E name \in DescNames : DescEntry(name)
    \/ \E raw \in DescLines : DescScanLine(raw)
    \/ DescScanEnd
    \/ Finish

SpecDesc == Init /\ [][NextDesc]_vars

-----------------------------------------------------------------------------
(* Archives in which a piece number occurs 256 times and more *)

\* The bound of SpecMany: entries per archive.
MaxMany == 257

ManyNames == {"0.png", "1.png"}

ManyEntry(name) == ReadEntry(name, 0, MaxMany)

NextMany ==
    \/ OpenFile
    \/ StatFile
    \/ NewGzipReader
    \/ \E name \in ManyNames : ManyEntry(name)
    \/ Finish

SpecMany == Init /\ [][NextMany]_vars

-----------------------------------------------------------------------------
(* Archives whose descriptors and piece numbers both give warnings *)

\* The entry names and descriptor lines of SpecWarn: two PieceCount lines
\* with different bad values, and piece numbers that leave gaps.
WarnNames == {"pala.desktop", "0.png", "2.png"}
WarnLines == {"PieceCount=abc", "PieceCount=x", "Name=Foo"}

WarnEntry(name) == ReadEntry(name, 0, MaxEntries)

NextWarn ==
    \/ OpenFile
    \/ StatFile
    \/ NewGzipReader
    \/ \E name \in WarnNames : WarnEntry(name)
    \/ \E raw \in WarnLines : DescScanLine(raw)
    \/ DescScanEnd
    \/ Finish

SpecWarn == Init /\ [][NextWarn]_vars

-----------------------------------------------------------------------------
(* Archives whose piece numbers do not fit the first tally *)

\* The bound of SpecGrow, entries per archive, and its entry names: numbers
\* below and beyond the 512 bytes of the first tally, and the largest int.
\* SpecGrow follows the tally while entries are read, not the end of the scan.
MaxGrow == 3
GrowNames ==
    {"0.png", "511.png", "512.png", "600.png", "1300.png", "9223372036854775807.png"}

GrowEntry(name) == ReadEntry(name, 0, MaxGrow)

NextGrow ==
    \/ OpenFile
    \/ StatFile
    \/ NewGzipReader
    \/ \E name \in GrowNames : GrowEntry(name)

SpecGrow == Init /\ [][NextGrow]_vars

-----------------------------------------------------------------------------
(* ScanPuzzle on two archives that differ in the order of their piece entries *)

\* The bound of SpecPerm: entries per archive.
MaxPermLen == 3

Entry(name, size, lines, failure) ==
    [Name |-> name, Size |-> size, Lines |-> lines, Failure |-> failure]

PermEntries ==
    {Entry("0.png", 5, <<>>, Nil), Entry("1.png", 5, <<>>, Nil),
     Entry("3.png", 5, <<>>, Nil), Entry("image.jpg", 7, <<>>, Nil),
     Entry("pala.desktop", 5, <<"PieceCount=abc", "Name=Foo">>, Nil),
     Entry("pala.desktop", 5, <<"PieceCount=x">>, Nil),
     Entry("99999999999999999999.png", 5, <<>>, Nil)}

InitPerm ==
    /\ pc = "pure"
    /\ fs \in Paths
    /\ archive \in UNION {[1..n -> PermEntries] : n \in 0..MaxPermLen}
    /\ permuted = archive
    /\ f = "none"
    /\ zr = "none"
    /\ defers = <<>>
    /\ ret = NewPuzzleInfo
    /\ maxPieceNum = -1
    /\ piecesFound = MakeBytes(0)
    /\ result = Nil
    /\ hdr = NoHeader
    /\ text = ""
    /\ nEntries = 0
    /\ nLines = 0
    /\ seen = [n \in {} |-> 0]
    /\ lastImage = -1
    /\ nDescs = 0
    /\ before = NewPuzzleInfo
    /\ alone = NewPuzzleInfo
    /\ assigned = {}
    /\ nCountLines = 0
    /\ closed = <<>>
    /\ errValue = Nil
    /\ rendered = Nil

\* Two piece entries of the second archive change places.
SwapPieces(i, j) ==
    /\ pc = "pure"
    /\ i < j
    /\ Classify(permuted[i].Name) = "piece"
    /\ Classify(permuted[j].Name) = "piece"
    /\ permuted' = [permuted EXCEPT ![i] = permuted[j], ![j] = permuted[i]]
    /\ UNCHANGED <<pc, fs, f, zr, defers, state, result, hdr, text, nEntries,
                   nLines, history, closed, archive, errValue, rendered>>

\* Both archives are scanned.
ScanBoth ==
    /\ pc = "pure"
    /\ pc' = "compared"
    /\ \E size \in FileSizes :
          result' = [first |-> ScanArchive(archive, fs, size),
                     second |-> ScanArchive(permuted, fs, size)]
    /\ UNCHANGED <<fs, f, zr, defers, state, hdr, text, nEntries, nLines,
                   history, closed, pure>>

NextPerm ==
    \/ \E i, j \in DOMAIN permuted : SwapPieces(i, j)
    \/ ScanBoth

SpecPerm == InitPerm /\ [][NextPerm]_vars

-----------------------------------------------------------------------------
(* Error() on the values of type Error *)

\* The fields the Error values are built from.  Error is an exported struct,
\* so a caller can hold any combination; ScanPuzzle builds some of them.
ErrorActions == {"cannot open", "cannot decompress", "open", ""}
ErrorPaths == {"puzzles/a.puzzle", ""}
Causes ==
    {Nil,
     PlainError("unexpected EOF"),
     NumError("99999999999999999999", "value out of range"),
     PathError("open", "puzzles/a.puzzle", "no such file or directory"),
     WrapPathError("open", "a", PathError("stat", "b", "permission denied")),
     WrapPathError("open", "a", Nil)}

InitError ==
    /\ pc = "Error"
    /\ errValue \in {Error(a, p, c) : a \in ErrorActions, p \in ErrorPaths, c \in Causes}
    /\ rendered = Nil
    /\ fs = ""
    /\ archive = <<>>
    /\ permuted = <<>>
    /\ f = "none"
    /\ zr = "none"
    /\ defers = <<>>
    /\ ret = NewPuzzleInfo
    /\ maxPieceNum = -1
    /\ piecesFound = MakeBytes(0)
    /\ result = Nil
    /\ hdr = NoHeader
    /\ text = ""
    /\ nEntries = 0
    /\ nLines = 0
    /\ seen = [n \in {} |-> 0]
    /\ lastImage = -1
    /\ nDescs = 0
    /\ before = NewPuzzleInfo
    /\ alone = NewPuzzleInfo
    /\ assigned = {}
    /\ nCountLines = 0
    /\ closed = <<>>

\* errValue.Error() is called, lines 157-166.
Render ==
    /\ pc = "Error"
    /\ pc' = "rendered"
    /\ rendered' = ErrorError(errValue)
    /\ UNCHANGED <<fs, f, zr, defers, state, result, hdr, text, nEntries, nLines,
                   history, closed, archive, permuted, errValue>>

\* errValue.Error() is called in the earlier copy of the package.
RenderEarlier ==
    /\ pc = "Error"
    /\ pc' = "rendered earlier"
    /\ rendered' = EarlierErrorError(errValue)
    /\ UNCHANGED <<fs, f, zr, defers, state, result, hdr, text, nEntries, nLines,
                   history, closed, archive, permuted, errValue>>

NextError ==
    \/ Render
    \/ RenderEarlier

SpecError == InitError /\ [][NextError]_vars

-----------------------------------------------------------------------------
(* What the claims speak of *)

\* The call has ended, by a return or by a panic.
Ended == pc \in {"done", "panic"}

\* The call has returned a record.
Success == pc = "done" /\ result.info # Nil

\* The piece number of an entry name, -1 for a name that is no piece name.
PieceIndex(name) ==
    IF rePieceName(name) = Nil THEN -1
    ELSE LET a == Atoi(rePieceName(name).digits)
         IN  IF a.err = Nil /\ a.wide = "" THEN a.n ELSE -1

\* How many entries read so far are piece number i.
RECURSIVE SumSeen(_, _)
SumSeen(names, i) ==
    IF names = {} THEN 0
    ELSE LET n == CHOOSE x \in names : TRUE
         IN  (IF PieceIndex(n) = i THEN seen[n] ELSE 0) + SumSeen(names \ {n}, i)

Occurrences(i) == SumSeen(DOMAIN seen, i)

\* The highest piece number among the entries read so far, -1 if none.
HighestSeen ==
    LET is == {PieceIndex(n) : n \in DOMAIN seen} \cup {-1}
    IN  CHOOSE m \in is : \A k \in is : k <= m

MissingWarning(i) == "missing \"" \o Itoa(i) \o ".png\""
MembersWarning(n, i) == Itoa(n) \o " members named \"" \o Itoa(i) \o ".png\""

HasPrefix(s, prefix) == Len(s) >= Len(prefix) /\ SubSeq(s, 1, Len(prefix)) = prefix

IsBadCountWarning(w) == HasPrefix(w, "bad PieceCount ")
IsMissingWarning(w) == HasPrefix(w, "missing \"")
IsMembersWarning(w) == Len(w) > 0 /\ Head(w) \in Digits
IsPieceWarning(w) == IsMissingWarning(w) \/ IsMembersWarning(w)

\* How often w occurs in the sequence ws.
CountOf(ws, w) == Cardinality({k \in DOMAIN ws : ws[k] = w})

-----------------------------------------------------------------------------
(* The claims *)

\* C1: every call of ScanPuzzle ends with a record and no error, or with no
\* record and an error.  A call that ends in a run-time panic has neither.
C1_RecordXorError ==
    Ended =>
        /\ result.panic = ""
        /\ \/ result.info # Nil /\ result.err = Nil
           \/ result.info = Nil /\ result.err # Nil

\* C2: after a successful scan every piece number from 0 to the highest one
\* that occurs in more than one entry has exactly one warning
\* `<n> members named "<i>.png"` and no `missing` warning.
C2_DuplicatesReported ==
    Success =>
        \A i \in 0..HighestSeen :
            Occurrences(i) > 1 =>
                /\ CountOf(result.info.Warnings, MembersWarning(Occurrences(i), i)) = 1
                /\ CountOf(result.info.Warnings, MissingWarning(i)) = 0

\* C3: after a successful scan of an archive with a piece entry, each piece
\* number below the highest has one `missing` warning if it occurs in no
\* entry and none if it occurs in one, and no number that occurs is
\* reported missing.
C3_MissingExactly ==
    Success /\ HighestSeen >= 0 =>
        /\ \A i \in 0..(HighestSeen - 1) :
              CountOf(result.info.Warnings, MissingWarning(i))
                  = IF Occurrences(i) = 0 THEN 1 ELSE 0
        /\ \A i \in 0..HighestSeen :
              Occurrences(i) >= 1 => CountOf(result.info.Warnings, MissingWarning(i)) = 0

C6_ImageSize ==
    LET expected == IF lastImage = -1 THEN 0 ELSE lastImage
    IN  /\ ret.ImageFileSize = expected
        /\ Success => result.info.ImageFileSize = expected

\* C6's case: a successful scan of two image entries and another entry; the
\* smaller size is the last one.
C6_Witness ==
    /\ Success
    /\ "image.jpg" \in DOMAIN seen
    /\ seen["image.jpg"] = 2
    /\ nEntries = 3
    /\ result.info.ImageFileSize = 5

\* C10: when the call ends, the file handle is closed if it was opened and
\* the gzip reader is closed if it was created; nothing is closed that was
\* not acquired, and nothing is closed while the call still runs.
C10_HandlesClosed ==
    /\ f # "badclose"
    /\ zr # "badclose"
    /\ Ended => f \in {"none", "closed"} /\ zr \in {"none", "closed"}
    /\ Ended /\ pc = "done" /\ result.err # Nil /\ result.err.Action = "cannot open"
          => f = "none" /\ zr = "none"
    /\ Ended /\ zr = "closed" => f = "closed"
    /\ ~Ended => f \in {"none", "open"} /\ zr \in {"none", "open"}
    /\ pc \in {"next", "desc"} => f = "open" /\ zr = "open"

\* C10's case: a failure after both handles were acquired, both closed.
C10_Witness ==
    /\ pc = "done"
    /\ result.err # Nil
    /\ result.err.Action = "cannot read decompressed TAR file"
    /\ f = "closed"
    /\ zr = "closed"
    /\ closed = <<"zr", "f">>

\* The fields of the record that a descriptor entry writes.
DescFields == {"Title", "Author", "Comment", "NPiecesDecl"}

\* C5 as stated: with two or more descriptor entries, the descriptor fields
\* of the returned record are those the last descriptor entry alone produces.
C5_LastDescriptorAlone ==
    Success /\ nDescs >= 2 =>
        \A fld \in DescFields : result.info[fld] = alone[fld]

\* C5 as amended: with two or more descriptor entries the results merge
\* field by field: a field the last descriptor entry assigns has the value
\* that entry alone produces, and every other field keeps the value it had
\* when the last descriptor entry began.
C5_MergedByField ==
    Success /\ nDescs >= 2 =>
        \A fld \in DescFields :
            result.info[fld] = IF fld \in assigned THEN alone[fld] ELSE before[fld]

\* C5's case: two descriptor entries, the title set by the first one only.
C5_Witness ==
    /\ Success
    /\ nDescs = 2
    /\ "Title" \notin assigned
    /\ "NPiecesDecl" \in assigned
    /\ result.info.Title = "Foo"
    /\ result.info.NPiecesDecl = -1

\* A step that scans one descriptor line, which text' then holds.
LineStep == pc = "desc" /\ nLines' = nLines + 1

\* The text of a line before and after its first "=".
KeyPart(line) == SubSeq(line, 1, IndexAny(line, {"="}) - 1)
ValuePart(line) == SubSeq(line, IndexAny(line, {"="}) + 1, Len(line))

\* A line with key PieceCount or 020_PieceCount.
IsCountLine(line) ==
    IndexAny(line, {"="}) > 0 /\ KeyPart(line) \in {"PieceCount", "020_PieceCount"}

\* A PieceCount line whose value, without the white space around it, is no
\* integer.
IsBadCountLine(line) ==
    IsCountLine(line) /\ Atoi(TrimSpace(ValuePart(line))).err # Nil

\* C7: a PieceCount line with a value that is no integer sets the declared
\* count to -1, appends the one warning `bad PieceCount "<value>"` and does
\* not end the scan; as long as no PieceCount line was scanned the declared
\* count is 0 and there is no such warning.
C7_BadPieceCount ==
    [][/\ LineStep /\ IsBadCountLine(text') =>
            /\ ret'.NPiecesDecl = -1
            /\ ret'.Warnings =
                  Append(ret.Warnings,
                         "bad PieceCount \"" \o TrimSpace(ValuePart(text')) \o "\"")
            /\ pc' = "desc"
            /\ result' = Nil
       /\ nCountLines' = 0 =>
            /\ ret'.NPiecesDecl = 0
            /\ \A k \in DOMAIN ret'.Warnings : ~IsBadCountWarning(ret'.Warnings[k])
       /\ Success' => result'.info.NPiecesDecl = ret'.NPiecesDecl]_vars

\* C7's case: a scan that returns a record after a bad PieceCount line.
C7_Witness ==
    /\ Success
    /\ text = "PieceCount= x1 "
    /\ result.info.NPiecesDecl = -1
    /\ result.info.Warnings = <<"bad PieceCount \"x1\"">>

\* A line that is no recognised assignment: no "=", a "[" before the first
\* "=", or a key that is none of the five.
Unrecognised(line) ==
    LET e == IndexAny(line, {"="})
        b == IndexAny(line, {"["})
    IN  \/ e = 0
        \/ b > 0 /\ b < e
        \/ KeyPart(line) \notin {"Name", "X-KDE-PluginInfo-Author", "Comment",
                                 "PieceCount", "020_PieceCount"}

\* C8: a descriptor line that is no recognised assignment leaves the record,
\* its warnings included, as it was.
C8_UnrecognisedIgnored ==
    [][LineStep /\ Unrecognised(text') => ret' = ret]_vars

\* C8's case: a bracketed variant of a recognised key scanned after the key
\* itself, the title still the first one.
C8_Witness ==
    /\ pc = "desc"
    /\ nLines = 2
    /\ text = "Name[de]=Bar"
    /\ Unrecognised(text)
    /\ ret.Title = "Foo"

\* The piece number a missing or members warning names.
WarningIndex(w) ==
    Atoi(SubSeq(w, IndexAny(w, {"\""}) + 1, Len(w) - 5)).n

\* The piece-number warnings of ws name strictly ascending piece numbers.
Ascending(ws) ==
    \A a, b \in DOMAIN ws :
        a < b /\ IsPieceWarning(ws[a]) /\ IsPieceWarning(ws[b])
            => WarningIndex(ws[a]) < WarningIndex(ws[b])

\* C9: two archives that differ by a permutation of their piece entries give
\* the same record, warnings included, and the piece-number warnings of the
\* record are in strictly ascending order of the piece number.
C9_OrderIndependent ==
    pc = "compared" =>
        /\ result.first.info = result.second.info
        /\ result.first.info # Nil => Ascending(result.first.info.Warnings)

\* C9's case: the piece entries around a descriptor entry change places, and
\* the record has a descriptor warning and two piece-number warnings.
C9_Witness ==
    /\ pc = "compared"
    /\ archive # permuted
    /\ Len(archive) = 3
    /\ archive[1].Name = "3.png"
    /\ archive[2].Name = "pala.desktop"
    /\ result.first.info # Nil
    /\ archive[3].Name = "1.png"
    /\ Len(result.first.info.Warnings) = 3
    /\ IsBadCountWarning(result.first.info.Warnings[1])
    /\ result.first.info.Warnings[2] = MissingWarning(0)

-----------------------------------------------------------------------------
(* The rendering of errors *)

HasSuffix(s, suffix) ==
    Len(s) >= Len(suffix) /\ SubSeq(s, Len(s) - Len(suffix) + 1, Len(s)) = suffix

\* C11: the error a scan returns renders as cannot <action> "<path>": <cause>,
\* where <action> names what was attempted: a path that cannot be opened
\* gives cannot open "<path>": ..., a stream that cannot be decompressed
\* gives cannot decompress "<path>": ...
C11_ErrorRendering ==
    (pc = "done" /\ result.err # Nil) =>
        LET r == ErrorError(result.err)
            tail == " \"" \o fs \o "\": " \o ErrorText(Unwrap(result.err.BaseError))
        IN  /\ r.panic = ""
            /\ HasPrefix(r.text, "cannot ")
            /\ HasSuffix(r.text, tail)
            /\ result.err.Action = "cannot open" => r.text = "cannot open" \o tail
            /\ result.err.Action = "cannot decompress"
                 => r.text = "cannot decompress" \o tail

\* C12: Error() yields a string for every Error value: cannot <action>
\* "<path>" and nothing more when there is no cause, the same followed by
\* ": " and the text of the cause when there is one, the text of the inner
\* cause when the cause is an os.PathError.
C12_AlwaysRenders ==
    rendered # Nil =>
        LET be == errValue.BaseError
            head == "cannot " \o errValue.Action \o " \"" \o errValue.FilePath \o "\""
        IN  /\ rendered.panic = ""
            /\ rendered.text =
                  IF be = Nil THEN head ELSE head \o ": " \o ErrorText(Unwrap(be))

-----------------------------------------------------------------------------
(* The tally *)

\* C13: after a successful scan every piece number below the highest that
\* occurs n > 1 times has the warning `<n> members named "<i>.png"` with the
\* true n, also for n >= 256.
C13_TrueCountReported ==
    Success =>
        \A i \in 0..(HighestSeen - 1) :
            Occurrences(i) > 1 =>
                \E k \in DOMAIN result.info.Warnings :
                    result.info.Warnings[k] = MembersWarning(Occurrences(i), i)

-----------------------------------------------------------------------------
(* A descriptor entry that cannot be read *)

ReadDescriptorAction == "cannot read \"pala.desktop\" member in "

\* C14: when reading the content of a descriptor entry fails, the call
\* returns no record and an error with the read-descriptor action, the path
\* passed to ScanPuzzle (not the "?" of the parser) and the error of the
\* stream as its cause.
C14_DescriptorReadFailure ==
    [][(pc = "desc" /\ pc' = "done") =>
          /\ result'.info = Nil
          /\ result'.panic = ""
          /\ result'.err # Nil
          /\ result'.err.Action = ReadDescriptorAction
          /\ result'.err.FilePath = fs
          /\ result'.err.FilePath # "?"
          /\ result'.err.BaseError \in StreamErrors]_vars

\* A scan that has failed in a descriptor entry after the parser had stored
\* a title and a warning.
C14_Witness ==
    /\ pc = "done"
    /\ result.err # Nil
    /\ result.err.Action = ReadDescriptorAction
    /\ result.info = Nil
    /\ nLines = 2
    /\ ret.Title = "Foo"
    /\ Len(ret.Warnings) = 1

-----------------------------------------------------------------------------
(* The growth of the tally *)

\* The entry read last is a piece entry whose number strconv.Atoi accepts.
PieceEntryRead ==
    /\ nEntries > 0
    /\ rePieceName(hdr.Name) # Nil
    /\ Atoi(rePieceName(hdr.Name).digits).err = Nil

\* C15: after every piece entry with a non-negative number i the tally has
\* been recorded without a failure: the tally is longer than i (grown when
\* it was not), and the count at every index is the number of entries read
\* so far with that number.
C15_TallyKeepsCounts ==
    PieceEntryRead =>
        /\ pc # "panic"
        /\ piecesFound.len > PieceIndex(hdr.Name)
        /\ \A n \in DOMAIN seen :
              PieceIndex(n) >= 0 => At(piecesFound, PieceIndex(n)) = Occurrences(PieceIndex(n))
        /\ DOMAIN piecesFound.cell \subseteq {PieceIndex(n) : n \in DOMAIN seen}

-----------------------------------------------------------------------------
(* Piece names whose number is no int *)

\* The name matches rePieceName and strconv.Atoi rejects its digits.
Malformed(name) ==
    rePieceName(name) # Nil /\ Atoi(rePieceName(name).digits).err # Nil

\* C16: an entry whose name matches the piece pattern and whose digits are
\* no int ends the scan with no record and an error `bad member name
\* "<name>"` that carries the path of the archive and the error of Atoi; the
\* entry changes neither the tally nor the highest number nor the warnings.
C16_MalformedPieceName ==
    [][(pc = "next" /\ nEntries' = nEntries + 1 /\ Malformed(hdr'.Name)) =>
          /\ pc' = "done"
          /\ result'.info = Nil
          /\ result'.panic = ""
          /\ result'.err =
                Error("bad member name " \o Quote(hdr'.Name), fs,
                      Atoi(rePieceName(hdr'.Name).digits).err)
          /\ piecesFound' = piecesFound
          /\ maxPieceNum' = maxPieceNum
          /\ ret' = ret]_vars

\* A scan that has tallied 1.png and then met a piece name of twenty digits.
C16_Witness ==
    /\ pc = "done"
    /\ nEntries = 2
    /\ maxPieceNum = 1
    /\ hdr.Name = "99999999999999999999.png"
    /\ result.info = Nil
    /\ result.err.Action = "bad member name \"99999999999999999999.png\""
    /\ result.err.BaseError = NumError("99999999999999999999", "value out of range")

-----------------------------------------------------------------------------
(* The order of the warnings *)

IsPrefix(s, t) == Len(s) <= Len(t) /\ SubSeq(t, 1, Len(s)) = s

BadCountWarning(line) == "bad PieceCount \"" \o TrimSpace(ValuePart(line)) \o "\""

\* C17: in every step of a scan the warnings of the record are extended at
\* their end or left alone: a descriptor line with a bad PieceCount appends
\* its warning, the end of the archive appends the piece-number warnings,
\* and no other step changes the list.  So the record returned holds the
\* PieceCount warnings in the order of their lines, and all of them before
\* the first piece-number warning.
C17_WarningsGrowInOrder ==
    [][/\ IsPrefix(ret.Warnings, ret'.Warnings)
       /\ LineStep =>
             ret'.Warnings = IF IsBadCountLine(text')
                             THEN Append(ret.Warnings, BadCountWarning(text'))
                             ELSE ret.Warnings
       /\ ~LineStep /\ ~Success' => ret'.Warnings = ret.Warnings
       /\ Success' /\ ~Success =>
             /\ result'.info.Warnings = ret'.Warnings
             /\ \A k \in DOMAIN ret.Warnings : IsBadCountWarning(ret.Warnings[k])
             /\ \A k \in DOMAIN ret'.Warnings :
                   k > Len(ret.Warnings) => IsPieceWarning(ret'.Warnings[k])
             /\ \A a, b \in DOMAIN ret'.Warnings :
                   IsPieceWarning(ret'.Warnings[a]) /\ IsBadCountWarning(ret'.Warnings[b])
                       => b < a]_vars

\* A record for an archive with a descriptor entry, 2.png and a second
\* descriptor entry: the two PieceCount warnings come first, in the order
\* of their entries, and the piece-number warnings follow.
C17_Witness ==
    /\ Success
    /\ nEntries = 3
    /\ nDescs = 2
    /\ hdr.Name = "pala.desktop"
    /\ text = "PieceCount=x"
    /\ result.info.Warnings =
          <<"bad PieceCount \"abc\"", "bad PieceCount \"x\"",
            MissingWarning(0), MissingWarning(1)>>
====
